---- MODULE Spec2Model ----
(***************************************************************************)
(* Model of the IIM Sambalpur GPT chat assistant:                          *)
(*   - the OpenRouter client with key rotation (lib/openrouter-client),    *)
(*   - the chat route POST handler and its event-stream relay,             *)
(*   - the prompt assembler (lib/prompt-builder),                          *)
(*   - the keyword retrieval over Supabase and the local file              *)
(*     (lib/retrieval),                                                    *)
(*   - the chunker of the ingestion script (scripts/upload-to-supabase).   *)
(* JavaScript runs each handler to its next await without interleaving,    *)
(* so one action is one such run-to-await segment.                         *)
(***************************************************************************)
EXTENDS Integers, Sequences, FiniteSets, TLC

\* ------------------------------------------------------------------ bounds
\* number of completion calls / chat requests that can be started
MaxCalls == 2

\* number of lines in an upstream body
MaxLines == 3
\* number of retrieved chunks handed to the prompt assembler
MaxChunks == 3
\* largest token budget tried
MaxBudget == 3

\* ------------------------------------------------------- program constants
\* OPENROUTER_KEY_1 .. OPENROUTER_KEY_3
NumKeySlots == 3

ExhaustedError == "All OpenRouter API keys exhausted or failed"
NoKeysError == "No OpenRouter API keys configured"
ApiError == "OpenRouter API error"

VARIABLES
    API_KEYS,          \* the configured keys, after filter(Boolean)
    goodKeys,          \* environment: the keys the upstream always answers OK to
    currentKeyIndex,   \* module state of the client
    keyStats,          \* index -> [requests, failures, lastUsed]
    now,               \* the clock read by new Date()
    pc,                \* per call: where the call is suspended
    kind,              \* per call: "chat", "stream" (chatCompletionStream) or "post"
    attempt,           \* per call: loop variable
    key,               \* per call: const key of the running iteration
    stats,             \* per call: index of the keyStats entry held in `stats`
    result,            \* per call: what the completion call returned or threw
    tried,             \* history: per call, the key indices of its attempts
    goodAtCall,        \* history: per call, goodKeys when the call began
    okSent,            \* history: per key, the OK responses to attempts sent with it
    apiErrors,         \* history: per call, the 'OpenRouter API error's thrown in it
    response,          \* per request: the response POST returned (NoResponse: none)
    promptOf,          \* per request: the prompt POST built
    sources,           \* per request: const sources of POST
    upstream,          \* per request: what the upstream body still holds
    buffer,            \* per request: let buffer of the relay
    out,               \* per request: the events enqueued on the controller
    closed,            \* per request: how often controller.close() was called
    received,          \* history: per request, the upstream text read so far
    cancelled,         \* per request: the consumer has cancelled the response stream
    readsAfterCancel,  \* history: per request, the reads issued after the cancel
    retrievedChunks,   \* buildPrompt: argument
    maxContextTokens,  \* buildPrompt: argument
    prompt,            \* buildPrompt: the BuiltPrompt returned (NoPrompt: not called)
    supabaseConfigured, \* NEXT_PUBLIC_SUPABASE_URL && SUPABASE_SERVICE_ROLE_KEY
    store,             \* the rows of the Supabase table `chunks`, in storage order
    chunksFile,        \* data/chunks.json: its chunks, or Unreadable
    rpc,               \* where retrieveRelevantChunks is suspended
    caller,            \* who called retrieveRelevantChunks: "post" or "direct"
    query,             \* retrieveRelevantChunks: argument, as its tokens
    topK,              \* retrieveRelevantChunks: argument
    keywords,          \* retrieveChunks: let keywords, after the expansion
    delivered,         \* history: the rows the last Supabase query delivered (data)
    queriesIssued,     \* history: number of queries sent to Supabase
    path,              \* history: the searches made and how the query ended
    retrieved,         \* what retrieveRelevantChunks returned
    block,             \* chunkSourceBlock: block.text_content, as its sentences
    chunked,           \* chunkSourceBlock: whether it was called, the chunks returned
    messages,          \* chat page: state
    isLoading,         \* chat page: state
    chatHistory,       \* chat page: state
    currentChatId,     \* chat page: state (NoChatId: null)
    uuids,             \* chat page: the calls of crypto.randomUUID() made so far
    sendPc,            \* handleSendMessage: where its last call is suspended or ended
    assistantId,       \* handleSendMessage: const assistantId
    fullContent,       \* handleSendMessage: let fullContent
    clientSources,     \* handleSendMessage: let sources
    wire,              \* handleSendMessage: what the response body still holds
    served             \* history: the events the server sent in that response

clientVars == <<API_KEYS, goodKeys, currentKeyIndex, keyStats, now>>
callVars == <<pc, kind, promptOf, attempt, key, stats, result>>
histVars == <<tried, goodAtCall, okSent, apiErrors>>
promptVars == <<retrievedChunks, maxContextTokens, prompt>>
postVars == <<response, sources, upstream, buffer, out, closed, received, cancelled,
              readsAfterCancel>>
retrievalVars == <<supabaseConfigured, store, chunksFile, rpc, caller, query, topK,
                   keywords, delivered, queriesIssued, path, retrieved>>
ingestVars == <<block, chunked>>
pageVars == <<messages, isLoading, chatHistory, currentChatId, uuids, sendPc, assistantId,
              fullContent, clientSources, wire, served>>
vars == <<clientVars, callVars, histVars, postVars, promptVars, retrievalVars,
          ingestVars, pageVars>>

Calls == 1 .. MaxCalls

\* ----------------------------------------------------------- environment
KeyName(i) == <<"OPENROUTER_KEY", i>>
\* API_KEYS[i] for an index outside the array
Undefined == <<"undefined">>
\* process.env: each slot holds a key or is unset
Environments == [1 .. NumKeySlots -> BOOLEAN]

RECURSIVE FilterSet(_, _)
FilterSet(env, i) ==
    IF i > NumKeySlots THEN <<>>
    ELSE (IF env[i] THEN <<KeyName(i)>> ELSE <<>>) \o FilterSet(env, i + 1)

\* [KEY_1, KEY_2, KEY_3].filter(Boolean)
FilterBoolean(env) == FilterSet(env, 1)

Range(s) == {s[i] : i \in DOMAIN s}

\* what fetch can produce: a rejection (network failure) or a response
NetworkFailure == [net |-> TRUE, status |-> 0, body |-> FALSE]
OkResponse == [net |-> FALSE, status |-> 200, body |-> TRUE]
Statuses == {200, 401, 403, 429, 500}
Responses ==
    {NetworkFailure, OkResponse, [net |-> FALSE, status |-> 200, body |-> FALSE]}
    \cup {[net |-> FALSE, status |-> s, body |-> TRUE] : s \in Statuses \ {200}}

Answers(k) == IF k \in goodKeys THEN {OkResponse} ELSE Responses

\* no BuiltPrompt yet
NoPrompt == [context |-> FALSE, contextBlock |-> <<>>, contextUsed |-> <<"none">>]

\* ------------------------------------------------- the chat route's answers
NoResponse == [status |-> 0, error |-> "", stream |-> FALSE]

\* NextResponse.json({ error: 'Message is required' }, { status: 400 })
ResponseNoMessage == [status |-> 400, error |-> "Message is required", stream |-> FALSE]

\* (mutant) the failure reported inside an event stream
ResponseOnThrowStreamed == [status |-> 200, error |-> "Internal server error", stream |-> TRUE]

\* the catch of POST: NextResponse.json({ error: ... }, { status: 500 })
ResponseOnThrow == [status |-> 500, error |-> "Internal server error", stream |-> FALSE]

\* new Response(transformedStream, { headers: text/event-stream })
ResponseStream == [status |-> 200, error |-> "", stream |-> TRUE]

\* the upstream text, in tokens: "\n", "data: ", "[DONE]", and the characters
\* of a payload: "{" c.. "}" stands for the JSON object whose
\* choices[0].delta.content is the string c.., "x" for any other character
NL == "NL"
DATA == "data: "
DONE == "[DONE]"
ContentChars == {"a", "b"}

SourcesEvent(srcs) == <<"sources", srcs>>
DoneEvent == <<"[DONE]">>
ContentEvent(content) == <<"content", content>>
ErrorEvent == <<"error", "Stream error occurred">>

\* (mutant) no chunk reported as a source
SourcesOfNone(p) == <<>>

\* prompt.contextUsed.map(c => ({ url, title }))
SourcesOf(p) ==
    [i \in 1 .. Len(p.contextUsed) |->
        [url |-> p.contextUsed[i].source_url, title |-> p.contextUsed[i].page_title]]


\* the lines an upstream can send
LineKinds ==
    { <<DATA, "{", "a", "}">>,     \* a delta with content
      <<DATA, "{", "}">>,          \* valid JSON without content
      <<DATA, DONE>>,              \* the upstream's end marker
      <<DATA, "x">>,               \* a payload that is not JSON
      <<"x">>,                     \* a line that is no data line
      <<"{", "a", "}">>,           \* a JSON delta without the 'data: ' prefix
      <<>> }                       \* the blank line between events

RECURSIVE Join(_)
Join(lines) ==
    IF lines = <<>> THEN <<>> ELSE lines[1] \o <<NL>> \o Join(Tail(lines))

\* the bodies of up to MaxLines lines, the last one terminated or not
Bodies ==
    UNION {{Join(ls) : ls \in [1 .. n -> LineKinds]} : n \in 0 .. MaxLines}
    \cup UNION {{SubSeq(Join(ls), 1, Len(Join(ls)) - 1) : ls \in [1 .. n -> LineKinds]} :
                   n \in 1 .. MaxLines}

\* buffer.split('\n'): the pieces between the newlines, the last one included
RECURSIVE Split(_, _)
Split(text, piece) ==
    IF text = <<>> THEN <<piece>>
    ELSE IF text[1] = NL THEN <<piece>> \o Split(Tail(text), <<>>)
    ELSE Split(Tail(text), Append(piece, text[1]))

\* JSON.parse(data) succeeds
JsonValid(data) ==
    /\ Len(data) >= 2
    /\ data[1] = "{"
    /\ data[Len(data)] = "}"
    /\ \A i \in 2 .. Len(data) - 1 : data[i] \in ContentChars

\* parsed.choices?.[0]?.delta?.content
DeltaContent(data) == SubSeq(data, 2, Len(data) - 1)

\* (mutant) a payload that does not parse reported as a stream error
ContentEventsOrError(data) ==
    IF ~JsonValid(data) THEN <<ErrorEvent>>
    ELSE IF DeltaContent(data) # <<>> THEN <<ContentEvent(DeltaContent(data))>>
    ELSE <<>>

\* the events of try { JSON.parse(data) ... if (content) enqueue } catch {}
ContentEvents(data) ==
    IF JsonValid(data) /\ DeltaContent(data) # <<>>
    THEN <<ContentEvent(DeltaContent(data))>>
    ELSE <<>>

\* line.startsWith('data: ')
StartsWithData(line) == line # <<>> /\ line[1] = DATA

\* if (data === '[DONE]'): "Send sources at the end"
DoneLineEvents(srcs) == <<SourcesEvent(srcs), DoneEvent>>

\* the body of for (const line of lines)
ProcessLine(line, srcs) ==
    IF StartsWithData(line)
    THEN LET data == Tail(line)
         IN  IF data = <<DONE>> THEN DoneLineEvents(srcs) ELSE ContentEvents(data)
    ELSE <<>>

RECURSIVE ProcessLines(_, _)
ProcessLines(lines, srcs) ==
    IF lines = <<>> THEN <<>>
    ELSE ProcessLine(lines[1], srcs) \o ProcessLines(Tail(lines), srcs)

\* buffer.replace('data: ', ''): the first occurrence goes
RECURSIVE RemoveFirstData(_)
RemoveFirstData(text) ==
    IF text = <<>> THEN <<>>
    ELSE IF text[1] = DATA THEN Tail(text)
    ELSE <<text[1]>> \o RemoveFirstData(Tail(text))

\* if (buffer.trim()) { try { JSON.parse(buffer.replace('data: ', '')) ... } }
FlushEvents(buf) ==
    IF buf # <<>> THEN ContentEvents(RemoveFirstData(buf)) ELSE <<>>

\* POST got the stream: sources are computed and transformedStream starts,
\* its start() running up to the first reader.read()
StartRelay(c, body) ==
    /\ response' = [response EXCEPT ![c] = ResponseStream]
    /\ sources' = [sources EXCEPT ![c] = SourcesOf(promptOf[c])]
    /\ upstream' = [upstream EXCEPT ![c] = body]
    /\ buffer' = [buffer EXCEPT ![c] = <<>>]
    /\ UNCHANGED <<out, closed, received, cancelled, readsAfterCancel>>

\* ------------------------------------------------------------ the client
\* (mutant) one attempt fewer than there are keys
maxAttemptsShort == Len(API_KEYS) - 1

\* const maxAttempts = API_KEYS.length
maxAttempts == Len(API_KEYS)

\* getCurrentKey(), evaluated at index i
getCurrentKey(i) ==
    IF Len(API_KEYS) = 0 THEN NoKeysError
    ELSE IF i + 1 \in DOMAIN API_KEYS THEN API_KEYS[i + 1] ELSE Undefined

\* (mutant) rotateKey() without the wrap
NextIndexNoWrap(i) == i + 1

\* the index rotateKey() moves to
NextIndex(i) == (i + 1) % Len(API_KEYS)

\* (mutant) only rate limiting rotates
shouldRotateKeyOn429(status) == status = 429

shouldRotateKey(status) == status = 429 \/ status = 401 \/ status = 403

ResponseOk(r) == r.status >= 200 /\ r.status <= 299

\* stats.failures++ of rotateKey(), on the entry of index i
WithFailure(ks, i) ==
    IF i \in DOMAIN ks THEN [ks EXCEPT ![i].failures = @ + 1] ELSE ks

\* stats.requests++; stats.lastUsed = new Date(), on the entry of index i
WithRequest(ks, i, t) ==
    IF i \in DOMAIN ks
    THEN [ks EXCEPT ![i].requests = @ + 1, ![i].lastUsed = t]
    ELSE ks

\* (mutant) the entry looked up when the response arrives
StatsEntryOnArrival(c) == currentKeyIndex

\* the keyStats entry an iteration holds in `stats`: taken before the fetch
StatsEntry(c) == stats[c]

InFlight(c) == pc[c] \in {"fetch", "text", "json"}

\* the completion call throws err: a chat call rejects, the POST handler
\* catches it and answers 500
Throw(c, err) ==
    /\ pc' = [pc EXCEPT ![c] = "done"]
    /\ result' = [result EXCEPT ![c] = err]
    /\ response' = IF kind'[c] = "post"
                   THEN [response EXCEPT ![c] = ResponseOnThrow] ELSE response
    /\ UNCHANGED <<sources, upstream, buffer, out, closed, received, cancelled,
                   readsAfterCancel>>
    /\ UNCHANGED <<attempt, key, stats, tried>>

\* loop head for iteration a, after this step's rotation (if any)
Iterate(c, a) ==
    IF a < maxAttempts
    THEN IF getCurrentKey(currentKeyIndex') = NoKeysError
         THEN Throw(c, NoKeysError)
         ELSE /\ pc' = [pc EXCEPT ![c] = "fetch"]
              /\ attempt' = [attempt EXCEPT ![c] = a]
              /\ key' = [key EXCEPT ![c] = getCurrentKey(currentKeyIndex')]
              /\ stats' = [stats EXCEPT ![c] = currentKeyIndex']
              /\ tried' = [tried EXCEPT ![c] = Append(@, currentKeyIndex')]
              /\ UNCHANGED <<result, postVars>>
    ELSE Throw(c, ExhaustedError)

\* rotateKey(); continue
RotateAndContinue(c, ks) ==
    /\ keyStats' = WithFailure(ks, currentKeyIndex)
    /\ currentKeyIndex' = NextIndex(currentKeyIndex)
    /\ Iterate(c, attempt[c] + 1)

\* (mutant) the catch block never rotates
NeverRotatesInCatch(a) == FALSE

\* the catch block, then the next iteration
RotatesInCatch(a) == a < maxAttempts - 1

Catch(c, ks) ==
    /\ IF RotatesInCatch(attempt[c])
       THEN /\ keyStats' = WithFailure(ks, currentKeyIndex)
            /\ currentKeyIndex' = NextIndex(currentKeyIndex)
       ELSE /\ keyStats' = ks
            /\ currentKeyIndex' = currentKeyIndex
    /\ Iterate(c, attempt[c] + 1)

\* a call begins: everything up to the first fetch
Begin(c, k, p) ==
    /\ pc[c] = "idle"
    /\ kind' = [kind EXCEPT ![c] = k]
    /\ promptOf' = [promptOf EXCEPT ![c] = p]
    /\ goodAtCall' = [goodAtCall EXCEPT ![c] = goodKeys]
    /\ UNCHANGED <<API_KEYS, goodKeys, currentKeyIndex, keyStats, now, okSent, apiErrors>>
    /\ UNCHANGED <<promptVars, retrievalVars, ingestVars, pageVars>>
    /\ Iterate(c, 0)

\* chatCompletion(payload)
ChatCompletion(c) == Begin(c, "chat", NoPrompt)

\* chatCompletionStream(payload)
ChatCompletionStream(c) == Begin(c, "stream", NoPrompt)

\* the fetch of call c settles with r
FetchSettles(c, r) ==
    /\ pc[c] = "fetch"
    /\ r \in Answers(key[c])
    /\ UNCHANGED <<API_KEYS, goodKeys, kind, promptOf, goodAtCall, apiErrors,
                   promptVars, retrievalVars, ingestVars, pageVars>>
    /\ okSent' = IF ~r.net /\ ResponseOk(r)
                 THEN [okSent EXCEPT ![key[c]] =
                          [n |-> @.n + 1, t |-> now,
                           moved |-> @.moved \/ currentKeyIndex # stats[c]]]
                 ELSE okSent
    /\ IF r.net
       THEN /\ Catch(c, keyStats)
            /\ UNCHANGED now
       ELSE IF shouldRotateKey(r.status)
       THEN /\ RotateAndContinue(c, keyStats)
            /\ UNCHANGED now
       ELSE IF ~ResponseOk(r)
       THEN \* await response.text()
            /\ pc' = [pc EXCEPT ![c] = "text"]
            /\ UNCHANGED <<currentKeyIndex, keyStats, now, attempt, key, stats,
                           result, tried, postVars>>
       ELSE /\ now' = now + 1
            /\ IF kind[c] = "chat"
               THEN \* return await response.json()
                    /\ keyStats' = WithRequest(keyStats, StatsEntry(c), now)
                    /\ pc' = [pc EXCEPT ![c] = "json"]
                    /\ UNCHANGED <<currentKeyIndex, attempt, key, stats, result,
                                   tried, postVars>>
               ELSE IF ~r.body
               THEN \* throw new Error('No response body for streaming')
                    /\ Catch(c, WithRequest(keyStats, StatsEntry(c), now))
               ELSE \* return response.body
                    /\ keyStats' = WithRequest(keyStats, StatsEntry(c), now)
                    /\ pc' = [pc EXCEPT ![c] = IF kind[c] = "post" THEN "read" ELSE "done"]
                    /\ result' = [result EXCEPT ![c] = "ok"]
                    /\ IF kind[c] = "post"
                       THEN \E body \in Bodies : StartRelay(c, body)
                       ELSE UNCHANGED postVars
                    /\ UNCHANGED <<currentKeyIndex, attempt, key, stats, tried>>

Fetch(c) == \E r \in Responses : FetchSettles(c, r)

\* (mutant) the API error leaves the attempt loop
OnApiErrorThrows(c, ks) ==
    /\ keyStats' = ks
    /\ currentKeyIndex' = currentKeyIndex
    /\ Throw(c, ApiError)

\* throw new Error(`OpenRouter API error: ...`) inside the try of the loop
OnApiError(c, ks) == Catch(c, ks)

\* response.text() settles: the API error is thrown
TextSettles(c) ==
    /\ pc[c] = "text"
    /\ apiErrors' = [apiErrors EXCEPT ![c] = @ + 1]
    /\ UNCHANGED <<API_KEYS, goodKeys, kind, promptOf, goodAtCall, now, okSent, promptVars,
                   retrievalVars, ingestVars, pageVars>>
    /\ OnApiError(c, keyStats)

\* response.json() settles: the call returns, or the rejection is caught
JsonSettles(c, parsed) ==
    /\ pc[c] = "json"
    /\ key[c] \in goodKeys => parsed
    /\ UNCHANGED <<API_KEYS, goodKeys, kind, promptOf, goodAtCall, now, okSent,
                   apiErrors, promptVars, retrievalVars, ingestVars, pageVars>>
    /\ IF parsed
       THEN /\ pc' = [pc EXCEPT ![c] = "done"]
            /\ result' = [result EXCEPT ![c] = "ok"]
            /\ UNCHANGED <<currentKeyIndex, keyStats, attempt, key, stats, tried,
                           postVars>>
       ELSE /\ Catch(c, keyStats)

Json(c) == \E parsed \in BOOLEAN : JsonSettles(c, parsed)

\* ------------------------------------------------------ the prompt builder
\* similarity in hundredths; text stands for its length in characters
Similarities == {50, 70, 90}
TextLengths == {0, 1, 4, 5}
DefaultMaxContextTokens == 8000

Chunk(id, sim, len) ==
    [chunk_id |-> id, source_url |-> <<"url", id>>, page_title |-> <<"title", id>>,
     text_length |-> len, similarity |-> sim]

\* lists of n chunks with unique ids 1..n
ChunkLists(n) ==
    {[i \in 1 .. n |-> Chunk(i, f[i][1], f[i][2])] :
        f \in [1 .. n -> Similarities \X TextLengths]}

\* Math.ceil(text.length / 4)
estimateTokens(len) == (len + 3) \div 4

\* (mutant) a comparator that sorts by similarity ascending
CompareAscending(a, b) == a.similarity - b.similarity

\* the comparator of the sort: negative when a goes first
Compare(a, b) == b.similarity - a.similarity

\* Array.prototype.sort is stable: x goes behind every y with Compare(y, x) <= 0
RECURSIVE Insert(_, _)
Insert(sorted, x) ==
    IF sorted = <<>> THEN <<x>>
    ELSE IF Compare(sorted[1], x) <= 0
         THEN <<sorted[1]>> \o Insert(Tail(sorted), x)
         ELSE <<x>> \o sorted

RECURSIVE Sort(_)
Sort(chunks) ==
    IF chunks = <<>> THEN <<>>
    ELSE Insert(Sort(SubSeq(chunks, 1, Len(chunks) - 1)), chunks[Len(chunks)])

\* (mutant) the budget test made before the chunk is counted
FitsBeforeAdding(currentTokens, chunkTokens, budget) == currentTokens <= budget

\* if (currentTokens + chunkTokens <= maxContextTokens)
Fits(currentTokens, chunkTokens, budget) == currentTokens + chunkTokens <= budget

\* the selection loop over sortedChunks, from position i
RECURSIVE Select(_, _, _, _, _)
Select(sortedChunks, i, selectedChunks, currentTokens, budget) ==
    IF i > Len(sortedChunks) THEN selectedChunks
    ELSE LET chunk == sortedChunks[i]
             chunkTokens == estimateTokens(chunk.text_length)
         IN  IF Fits(currentTokens, chunkTokens, budget)
             THEN Select(sortedChunks, i + 1, Append(selectedChunks, chunk),
                         currentTokens + chunkTokens, budget)
             ELSE Select(sortedChunks, i + 1, selectedChunks, currentTokens, budget)

Confidence(sim) == IF sim > 80 THEN "HIGH" ELSE IF sim > 60 THEN "MEDIUM" ELSE "LOW"

\* the blocks "Context i+1 (Relevance) Source URL text" of the system prompt
buildContextBlock(chunks) ==
    [i \in 1 .. Len(chunks) |->
        [number |-> i, relevance |-> Confidence(chunks[i].similarity),
         source |-> chunks[i].page_title, url |-> chunks[i].source_url,
         chunk_id |-> chunks[i].chunk_id]]

buildPrompt(chunks, budget) ==
    LET selectedChunks == Select(Sort(chunks), 1, <<>>, 0, budget)
    IN  [context |-> TRUE, contextBlock |-> buildContextBlock(selectedChunks),
         contextUsed |-> selectedChunks]

buildNoContextPrompt == [context |-> FALSE, contextBlock |-> <<>>, contextUsed |-> <<>>]

\* buildPrompt(userMessage, retrievedChunks, maxContextTokens)
BuildPrompt ==
    /\ prompt = NoPrompt
    /\ prompt' = buildPrompt(retrievedChunks, maxContextTokens)
    /\ UNCHANGED <<clientVars, callVars, histVars, postVars, retrievedChunks,
                   maxContextTokens, retrievalVars, ingestVars, pageVars>>

\* -------------------------------------------------------- the chat route
\* what retrieveRelevantChunks hands to POST: nothing, one chunk, or a chunk
\* too long for the default budget stored before a short one
PostChunkLists ==
    { <<>>,
      <<Chunk(1, 70, 4)>>,
      <<Chunk(1, 50, 40000), Chunk(2, 90, 4)>> }

\* the request body: not JSON, a blank message, or a message
Requests == {"invalid", "blank", "message"}

\* POST answers without calling the model
PostAnswers(c, r) ==
    /\ pc' = [pc EXCEPT ![c] = "done"]
    /\ kind' = [kind EXCEPT ![c] = "post"]
    /\ response' = [response EXCEPT ![c] = r]
    /\ UNCHANGED <<clientVars, promptOf, attempt, key, stats, result, histVars,
                   sources, upstream, buffer, out, closed, received, cancelled,
                   readsAfterCancel, promptVars,
                   retrievalVars,
                   ingestVars, pageVars>>

\* POST(request), up to the first fetch of chatCompletionStream
PostRequest(c, req, chunks) ==
    /\ pc[c] = "idle"
    /\ IF req = "invalid" THEN PostAnswers(c, ResponseOnThrow)
       ELSE IF req = "blank" THEN PostAnswers(c, ResponseNoMessage)
       ELSE Begin(c, "post",
                  IF Len(chunks) > 0
                  THEN buildPrompt(chunks, DefaultMaxContextTokens)
                  ELSE buildNoContextPrompt)

Post(c) == \E req \in Requests : \E chunks \in PostChunkLists : PostRequest(c, req, chunks)

\* after the loop: "Ensure sources are sent"
FinalEvents(srcs) == <<SourcesEvent(srcs), DoneEvent>>

RelayUnchanged ==
    UNCHANGED <<clientVars, kind, promptOf, attempt, key, stats, result, histVars,
                response, sources, promptVars, retrievalVars, ingestVars, pageVars>>

\* controller.enqueue(event) for each of the events: once the consumer has
\* cancelled, the stream is no longer readable and enqueue throws a TypeError
EnqueueThrows(c, events) == cancelled[c] /\ events # <<>>

\* out after the events were enqueued, or the first enqueue threw
Enqueued(c, events) == IF cancelled[c] THEN out[c] ELSE out[c] \o events

\* the loop is left by an exception: the catch block enqueues the error
\* event and finally calls controller.close(); on a cancelled stream both
\* throw and start() rejects
LeavesLoop(c) ==
    /\ closed' = [closed EXCEPT ![c] = @ + 1]
    /\ pc' = [pc EXCEPT ![c] = "closed"]

\* reader.read() is called again
ReadsAgain(c) ==
    /\ readsAfterCancel' = [readsAfterCancel EXCEPT ![c] = IF cancelled[c] THEN @ + 1 ELSE @]
    /\ UNCHANGED <<pc, closed>>

\* reader.read() resolves with the next k tokens of the body
ReadValue(c, k) ==
    /\ pc[c] = "read"
    /\ k \in 1 .. Len(upstream[c])
    /\ LET pieces == Split(buffer[c] \o SubSeq(upstream[c], 1, k), <<>>)
           lines == SubSeq(pieces, 1, Len(pieces) - 1)
           events == ProcessLines(lines, sources[c])
       IN  /\ buffer' = [buffer EXCEPT ![c] = pieces[Len(pieces)]]
           /\ out' = [out EXCEPT ![c] = Enqueued(c, events)]
           /\ IF EnqueueThrows(c, events)
              THEN LeavesLoop(c) /\ UNCHANGED readsAfterCancel
              ELSE ReadsAgain(c)
    /\ upstream' = [upstream EXCEPT ![c] = SubSeq(@, k + 1, Len(@))]
    /\ received' = [received EXCEPT ![c] = @ \o SubSeq(upstream[c], 1, k)]
    /\ UNCHANGED cancelled
    /\ RelayUnchanged

ReadChunk(c) == \E k \in 1 .. Len(upstream[c]) : ReadValue(c, k)

\* reader.read() resolves with done: flush, final events, close
ReadDone(c) ==
    /\ pc[c] = "read"
    /\ upstream[c] = <<>>
    /\ out' = [out EXCEPT ![c] =
                  Enqueued(c, FlushEvents(buffer[c]) \o FinalEvents(sources[c]))]
    /\ LeavesLoop(c)
    /\ UNCHANGED <<upstream, buffer, received, cancelled, readsAfterCancel>>
    /\ RelayUnchanged

\* (mutant) the final events sent after the error event
OnReadErrorThenFinal(srcs) == <<ErrorEvent>> \o FinalEvents(srcs)

\* catch (error): the error event alone
OnReadError(srcs) == <<ErrorEvent>>

\* reader.read() rejects: the error event, close
ReadFails(c) ==
    /\ pc[c] = "read"
    /\ out' = [out EXCEPT ![c] = Enqueued(c, OnReadError(sources[c]))]
    /\ LeavesLoop(c)
    /\ UNCHANGED <<upstream, buffer, received, cancelled, readsAfterCancel>>
    /\ RelayUnchanged

\* the consumer of the response cancels it (the client went away): the
\* stream has no cancel callback, the loop stays suspended in reader.read()
Cancel(c) ==
    /\ pc[c] = "read"
    /\ ~cancelled[c]
    /\ cancelled' = [cancelled EXCEPT ![c] = TRUE]
    /\ UNCHANGED <<response, sources, upstream, buffer, out, closed, received,
                   readsAfterCancel>>
    /\ UNCHANGED <<clientVars, callVars, histVars, promptVars, retrievalVars, ingestVars, pageVars>>

\* ------------------------------------------------------------- retrieval
\* a query is the sequence of its tokens, query.split(/\s+/)
MaxWords == 2
\* rows in the Supabase table
MaxRows == 4
\* chunks in data/chunks.json
MaxFileChunks == 1

\* retrieveRelevantChunks(message, 15)
PostTopK == 15
\* topK of a call made with a small result count
TopKs == {1, 2}

\* the tokens of the queries tried
QueryWords == {"the", "hi", "FEE", "yoga"}

\* w.length, for the tokens of a query in lower case
Length(w) ==
    CASE w = "hi" -> 2
      [] w = "the" -> 3
      [] w = "fee" -> 3
      [] w = "yoga" -> 4
      [] w = "math" -> 4
      [] w = "prof" -> 4

\* w.toLowerCase()
toLowerCase(w) == IF w = "FEE" THEN "fee" ELSE w

stopwords ==
    {"the", "and", "for", "are", "but", "not", "you", "all", "can", "her", "was",
     "one", "our", "out", "what", "about", "which", "when", "how", "who", "where",
     "why", "does", "have", "has", "is", "in", "it", "of", "to", "a", "an", "be",
     "at", "as", "by", "from", "or", "on", "with", "that", "this"}

\* Object.entries(synonyms), in the order of the literal
synonyms ==
    << <<"statistics", <<"statistics", "stats", "p&s", "probability">> >>,
       <<"mathematics", <<"mathematics", "math", "maths", "calculus", "algebra">> >>,
       <<"professor", <<"professor", "prof", "faculty", "teaches", "instructor">> >>,
       <<"syllabus", <<"syllabus", "curriculum", "course", "outline", "topics">> >>,
       <<"schedule", <<"schedule", "timetable", "calendar", "timing", "class">> >>,
       <<"data", <<"data", "dsai", "ds&ai", "datascience">> >>,
       <<"science", <<"science", "dsai", "ds&ai">> >>,
       <<"semester", <<"semester", "sem", "term", "year">> >>,
       <<"first", <<"first", "1st", "sem-i", "semester-1", "sem-1">> >>,
       <<"yoga", <<"yoga", "meditation", "mindfulness">> >>,
       <<"psychology", <<"psychology", "positive", "behavioral">> >> >>

Queries == UNION {[1 .. n -> QueryWords] : n \in 1 .. MaxWords}

\* longer queries, over words of which two have five synonyms each
MaxLongWords == 3
LongQueryWords == {"the", "fee", "math", "prof"}
LongQueries == UNION {[1 .. n -> LongQueryWords] : n \in 1 .. MaxLongWords}

\* query.toLowerCase().split(/\s+/)
Lowered(q) == [i \in DOMAIN q |-> toLowerCase(q[i])]

\* (mutant) stop-words kept as keywords
IsKeywordAnyWord(w) == Length(w) >= 3

\* w => w.length >= 3 && !stopwords.has(w)
IsKeyword(w) == Length(w) >= 3 /\ w \notin stopwords

\* s.slice(0, n)
Slice(s, n) == SubSeq(s, 1, IF Len(s) < n THEN Len(s) ELSE n)

\* the keywords before the expansion
ExtractKeywords(q) == Slice(SelectSeq(Lowered(q), IsKeyword), 5)

\* expandedKeywords.add(x): a Set keeps the order of first insertion
Add(seq, x) == IF x \in Range(seq) THEN seq ELSE Append(seq, x)

RECURSIVE AddAll(_, _)
AddAll(seq, items) ==
    IF items = <<>> THEN seq ELSE AddAll(Add(seq, items[1]), Tail(items))

\* for (const [key, syns] of Object.entries(synonyms)), from entry i
RECURSIVE ExpandOne(_, _, _)
ExpandOne(seq, kw, i) ==
    IF i > Len(synonyms) THEN seq
    ELSE LET syns == synonyms[i][2]
         IN  ExpandOne(IF kw = synonyms[i][1] \/ kw \in Range(syns)
                       THEN AddAll(seq, syns) ELSE seq,
                       kw, i + 1)

\* for (const kw of keywords)
RECURSIVE Expand(_, _)
Expand(seq, kws) ==
    IF kws = <<>> THEN seq
    ELSE Expand(ExpandOne(Add(seq, kws[1]), kws[1], 1), Tail(kws))

\* keywords = Array.from(expandedKeywords).slice(0, 10)
ExpandedKeywords(q) == Slice(Expand(<<>>, ExtractKeywords(q)), 10)

\* a text stands for the set of the words that occur in it, in lower case
includes(text, w) == w \in text

\* the contents a stored chunk can have
RowKinds ==
    { [text |-> {"the", "fee"}, title |-> {}],
      [text |-> {"fee", "meditation"}, title |-> {"fee"}] }

Row(i, k) ==
    [id |-> i, source_url |-> <<"url", i>>, page_title |-> <<"title", i>>,
     text_length |-> 20, text |-> k.text, title |-> k.title]

\* the lists of up to n rows, with ids in storage order
RowLists(n) ==
    UNION {{[i \in 1 .. m |-> Row(i, f[i])] : f \in [1 .. m -> RowKinds]} : m \in 0 .. n}

\* readFile or JSON.parse threw, or the file holds no array of chunks
Unreadable == [readable |-> FALSE, chunks |-> <<>>]

\* a file that parses to the array rows
FileOf(rows) == [readable |-> TRUE, chunks |-> rows]

\* similarity, a quotient, in hundredths rounded down: distinct quotients of
\* one call (same divisor, below 100) stay distinct
Hundredths(num, den) == (100 * num) \div den

\* content.ilike.%k%,page_title.ilike.%k% joined with or
Matches(row, kws) ==
    \E k \in Range(kws) : includes(row.text, k) \/ includes(row.title, k)

Matching(kws) == {i \in DOMAIN store : Matches(store[i], kws)}

\* the number of rows a query limited to n delivers
Delivered(kws, n) ==
    IF Cardinality(Matching(kws)) < n THEN Cardinality(Matching(kws)) ELSE n

\* .or(orFilters).limit(n) without an order: any n of the matching rows, in
\* any order
Deliveries(kws, n) ==
    LET m == Matching(kws)
        len == Delivered(kws, n)
    IN  {[j \in 1 .. len |-> store[f[j]]] :
            f \in {g \in [1 .. len -> m] : \A a, b \in 1 .. len : a # b => g[a] # g[b]}}

\* for (const kw of keywords) { score += 1; score += 3 }
RECURSIVE Score(_, _)
Score(row, kws) ==
    IF kws = <<>> THEN 0
    ELSE (IF includes(row.text, kws[1]) THEN 1 ELSE 0)
         + (IF includes(row.title, kws[1]) THEN 3 ELSE 0)
         + Score(row, Tail(kws))

\* the object returned by data.map((row) => ...)
ScoredRow(row, kws) ==
    [chunk_id |-> row.id, source_url |-> row.source_url, page_title |-> row.page_title,
     text_length |-> row.text_length, text |-> row.text, title |-> row.title,
     similarity |-> Hundredths(Score(row, kws), Len(kws) * 4)]

\* (mutant) every delivered row returned
TopSliceAll(sorted, k) == sorted

\* .slice(0, topK)
TopSlice(sorted, k) == Slice(sorted, k)

\* scoredChunks.sort(...).slice(0, topK) of retrieveChunks
ScoreAndRank(rows, kws, k) ==
    TopSlice(Sort([i \in DOMAIN rows |-> ScoredRow(rows[i], kws)]), k)

\* for (const word of queryWords) of retrieveChunksLocal
RECURSIVE ScoreLocal(_, _)
ScoreLocal(chunk, words) ==
    IF words = <<>> THEN 0
    ELSE (IF Length(words[1]) < 3 THEN 0
          ELSE (IF includes(chunk.text, words[1]) THEN 1 ELSE 0)
               + (IF includes(chunk.title, words[1]) THEN 2 ELSE 0))
         + ScoreLocal(chunk, Tail(words))

\* { ...chunk, similarity: score / queryWords.length }
ScoredLocal(chunk, words) ==
    [chunk_id |-> chunk.id, source_url |-> chunk.source_url,
     page_title |-> chunk.page_title, text_length |-> chunk.text_length,
     text |-> chunk.text, title |-> chunk.title,
     similarity |-> Hundredths(ScoreLocal(chunk, words), Len(words))]

\* c => c.similarity > 0
Positive(c) == c.similarity > 0

\* what retrieveChunksLocal returns
retrieveChunksLocal(file, q, k) ==
    IF ~file.readable THEN <<>>
    ELSE LET words == Lowered(q)
             scoredChunks ==
                 [i \in DOMAIN file.chunks |-> ScoredLocal(file.chunks[i], words)]
         IN  TopSlice(Sort(SelectSeq(scoredChunks, Positive)), k)

\* ---- retrieveRelevantChunks, one call at a time
RetrievalUnchanged ==
    UNCHANGED <<clientVars, callVars, histVars, postVars, promptVars, ingestVars, pageVars>>

\* retrieveRelevantChunks(q, k) up to its first wait: for the answer of
\* Supabase, or for the local file when retrieveChunks was skipped or
\* returned [] for want of keywords
Retrieve(who, q, k) ==
    /\ rpc = "idle"
    /\ caller' = who
    /\ query' = q
    /\ topK' = k
    /\ IF supabaseConfigured
       THEN /\ keywords' = ExpandedKeywords(q)
            /\ IF Len(keywords') = 0
               THEN /\ rpc' = "readFile"
                    /\ path' = <<"supabase", "local">>
                    /\ UNCHANGED queriesIssued
               ELSE /\ rpc' = "query"
                    /\ path' = <<"supabase">>
                    /\ queriesIssued' = queriesIssued + 1
       ELSE /\ rpc' = "readFile"
            /\ path' = <<"local">>
            /\ UNCHANGED <<keywords, queriesIssued>>
    /\ UNCHANGED <<supabaseConfigured, store, chunksFile, delivered, retrieved>>

\* a caller other than the chat route
RetrieveDirect ==
    /\ \E q \in Queries : \E k \in TopKs : Retrieve("direct", q, k)
    /\ RetrievalUnchanged

\* a call with a longer query
RetrieveLong ==
    /\ \E q \in LongQueries : \E k \in TopKs : Retrieve("direct", q, k)
    /\ RetrievalUnchanged

\* POST(request) up to the first wait of retrieveRelevantChunks(message, 15)
PostRetrieves(c) ==
    /\ pc[c] = "idle"
    /\ rpc = "idle"
    /\ \E req \in Requests :
          IF req = "invalid" THEN PostAnswers(c, ResponseOnThrow)
          ELSE IF req = "blank" THEN PostAnswers(c, ResponseNoMessage)
          ELSE /\ \E q \in Queries : Retrieve("post", q, PostTopK)
               /\ RetrievalUnchanged

\* how the Supabase query can end
QueryOutcomes == {"data", "error", "throws"}

\* (mutant) the failure passed over and the rows ranked
OnQueryFailureRanks(rows, kws, k) == ScoreAndRank(rows, kws, k)

\* if (error) throw error; ... catch (error) { return [] }
OnQueryFailure(rows, kws, k) == <<>>

\* const { data, error } = await supabase...: with data the chunks are
\* scored and ranked; an error is thrown and caught, as is a rejection; an
\* empty result of retrieveChunks sends retrieveRelevantChunks to the file
QuerySettles(o, rows) ==
    /\ rpc = "query"
    /\ delivered' = IF o = "data" THEN rows ELSE <<>>
    /\ LET ranked == IF o = "data" THEN ScoreAndRank(rows, keywords, topK)
                     ELSE OnQueryFailure(rows, keywords, topK)
       IN  IF Len(ranked) > 0
           THEN /\ rpc' = "done"
                /\ retrieved' = ranked
                /\ path' = Append(path, o)
           ELSE /\ rpc' = "readFile"
                /\ path' = path \o <<o, "local">>
                /\ UNCHANGED retrieved
    /\ UNCHANGED <<supabaseConfigured, store, chunksFile, caller, query, topK,
                   keywords, queriesIssued>>
    /\ RetrievalUnchanged

Query ==
    /\ rpc = "query"
    /\ \E o \in QueryOutcomes :
          \E rows \in Deliveries(keywords, topK * 3) : QuerySettles(o, rows)

\* await fs.readFile(...) settles: retrieveChunksLocal returns
ReadFile ==
    /\ rpc = "readFile"
    /\ rpc' = "done"
    /\ retrieved' = retrieveChunksLocal(chunksFile, query, topK)
    /\ UNCHANGED <<supabaseConfigured, store, chunksFile, caller, query, topK,
                   keywords, delivered, queriesIssued, path>>
    /\ RetrievalUnchanged

\* POST after await retrieveRelevantChunks: the prompt is built and
\* chatCompletionStream begins
PostContinues(c) ==
    /\ rpc = "done"
    /\ caller = "post"
    /\ PostRequest(c, "message", retrieved)

\* ----------------------------------------------- the ingestion's chunker
\* sentences in a source block
MaxSentences == 4

MIN_CHUNK_WORDS == 100
MAX_CHUNK_WORDS == 400

\* the lengths of the sentences tried, in words
WordCounts == {10, 60, 150, 390}

\* block.text_content stands for its pieces between sentence ends, each
\* with its number of words
Texts ==
    UNION {{[i \in 1 .. n |-> [id |-> i, words |-> f[i]]] : f \in [1 .. n -> WordCounts]} :
              n \in 0 .. MaxSentences}

\* s => s.trim().length > 0
NonBlank(s) == s.words > 0

\* text.split(/(?<=[.!?])\s+/).filter(...)
splitIntoSentences(text) == SelectSeq(text, NonBlank)

\* sentence.split(/\s+/).length
sentenceWords(sentence) == sentence.words

\* overlapSentences.join(' ').split(/\s+/).length
RECURSIVE JoinedWords(_)
JoinedWords(sentences) ==
    IF sentences = <<>> THEN 0
    ELSE sentenceWords(sentences[1]) + JoinedWords(Tail(sentences))

\* currentChunk.slice(-2)
LastTwo(current) ==
    SubSeq(current, IF Len(current) > 2 THEN Len(current) - 1 ELSE 1, Len(current))

\* the chunk pushed: its text is the sentences joined
ChunkOf(current, count) ==
    [sentences |-> [i \in DOMAIN current |-> current[i].id], word_count |-> count]

\* if (currentWordCount >= MIN_CHUNK_WORDS)
KeepsChunk(count) == count >= MIN_CHUNK_WORDS

\* if (currentWordCount >= MIN_CHUNK_WORDS / 2): "More lenient for last chunk"
KeepsLastChunk(count) == 2 * count >= MIN_CHUNK_WORDS

\* for (const sentence of sentences), from sentence i, then the last chunk
RECURSIVE ChunkLoop(_, _, _, _, _)
ChunkLoop(sentences, i, made, current, count) ==
    IF i > Len(sentences)
    THEN IF Len(current) > 0 /\ KeepsLastChunk(count)
         THEN Append(made, ChunkOf(current, count))
         ELSE made
    ELSE LET sentence == sentences[i]
             words == sentenceWords(sentence)
         IN  IF count + words > MAX_CHUNK_WORDS /\ Len(current) > 0
             THEN ChunkLoop(sentences, i + 1,
                            IF KeepsChunk(count)
                            THEN Append(made, ChunkOf(current, count))
                            ELSE made,
                            Append(LastTwo(current), sentence),
                            JoinedWords(LastTwo(current)) + words)
             ELSE ChunkLoop(sentences, i + 1, made, Append(current, sentence),
                            count + words)

chunkSourceBlock(text) == ChunkLoop(splitIntoSentences(text), 1, <<>>, <<>>, 0)

\* chunkSourceBlock(block)
ChunkSourceBlock ==
    /\ ~chunked.called
    /\ chunked' = [called |-> TRUE, chunks |-> chunkSourceBlock(block)]
    /\ UNCHANGED <<clientVars, callVars, histVars, postVars, promptVars, retrievalVars,
                   block, pageVars>>

\* ---------------------------------------------------------- the chat page
\* calls of crypto.randomUUID() in a session
MaxUuids == 5

\* useState<string | null>(null)
NoChatId == 0

\* the i-th value of crypto.randomUUID()
randomUUID(i) == i

\* contents of messages, as sequences of characters
Typed == <<"typed">>
Apology == <<"I apologize, but I encountered an error processing your request.">>

Message(id, role, content, srcs) ==
    [id |-> id, role |-> role, content |-> content, sources |-> srcs]

\* the {sources} lists the server sends: none, or one chunk
OneSource == <<[url |-> <<"url", 1>>, title |-> <<"title", 1>>]>>
SourceLists == {<<>>, OneSource}

\* the event streams the chat route serves: content events, then sources
\* and sentinel (twice when the upstream sent its own '[DONE]'), or then
\* the error event
ServedContents == {<<>>, <<ContentEvent(<<"a">>)>>,
                   <<ContentEvent(<<"a">>), ContentEvent(<<"b">>)>>}
ServedEnds ==
    UNION {{FinalEvents(srcs), DoneLineEvents(srcs) \o FinalEvents(srcs)} :
              srcs \in SourceLists}
    \cup {<<ErrorEvent>>}
ServedStreams == {cs \o end : cs \in ServedContents, end \in ServedEnds}

\* JSON.stringify of the payload of an event, in tokens
stringify(ev) ==
    IF ev[1] = "content" THEN <<"{">> \o ev[2] \o <<"}">>
    ELSE IF ev[1] = "sources" THEN <<"{", IF ev[2] = <<>> THEN "[]" ELSE "[s]", "}">>
    ELSE <<"{", "error", "}">>

\* encoder.encode(`data: ${...}\n\n`)
Encode(ev) ==
    IF ev = DoneEvent THEN <<DATA, DONE, NL, NL>>
    ELSE <<DATA>> \o stringify(ev) \o <<NL, NL>>

RECURSIVE EncodeAll(_)
EncodeAll(evs) == IF evs = <<>> THEN <<>> ELSE Encode(evs[1]) \o EncodeAll(Tail(evs))

\* JSON.parse(data) succeeds on the payload of an event
ParsesEvent(data) ==
    /\ Len(data) = 3
    /\ data[1] = "{"
    /\ data[3] = "}"
    /\ data[2] \in ContentChars \cup {"[]", "[s]", "error"}

\* the body of for (const line of lines), on fullContent and sources
ReadLine(line, acc) ==
    IF StartsWithData(line) /\ Tail(line) # <<DONE>> /\ ParsesEvent(Tail(line))
    THEN LET v == Tail(line)[2]
         IN  [content |-> IF v \in ContentChars THEN Append(acc.content, v)
                          ELSE acc.content,
              sources |-> IF v = "[]" THEN <<>>
                          ELSE IF v = "[s]" THEN OneSource ELSE acc.sources,
              updated |-> acc.updated \/ v \in ContentChars]
    ELSE acc

RECURSIVE ReadLines(_, _)
ReadLines(lines, acc) ==
    IF lines = <<>> THEN acc ELSE ReadLines(Tail(lines), ReadLine(lines[1], acc))

\* prev.map(m => m.id === id ? { ...m, content } : m)
WithContent(msgs, id, content) ==
    [i \in DOMAIN msgs |->
        IF msgs[i].id = id THEN [msgs[i] EXCEPT !.content = content] ELSE msgs[i]]

\* prev.map(m => m.id === id ? { ...m, content, sources } : m)
WithContentAndSources(msgs, id, content, srcs) ==
    [i \in DOMAIN msgs |->
        IF msgs[i].id = id
        THEN [msgs[i] EXCEPT !.content = content, !.sources = srcs]
        ELSE msgs[i]]

PageUnchanged ==
    UNCHANGED <<clientVars, callVars, histVars, postVars, promptVars, retrievalVars,
                ingestVars>>

\* prev => [chat, ...prev.slice(0, 19)]
Saved(chat, prev) == <<chat>> \o Slice(prev, 19)

handleNewChat ==
    /\ uuids < MaxUuids
    /\ chatHistory' = IF Len(messages) > 0 /\ currentChatId # NoChatId
                      THEN Saved([id |-> currentChatId, messages |-> messages],
                                 chatHistory)
                      ELSE chatHistory
    /\ messages' = <<>>
    /\ currentChatId' = randomUUID(uuids + 1)
    /\ uuids' = uuids + 1
    /\ UNCHANGED <<isLoading, sendPc, assistantId, fullContent, clientSources, wire,
                   served>>
    /\ PageUnchanged

handleSelectChat(chat) ==
    /\ messages' = chat.messages
    /\ currentChatId' = chat.id
    /\ UNCHANGED <<isLoading, chatHistory, uuids, sendPc, assistantId, fullContent,
                   clientSources, wire, served>>
    /\ PageUnchanged

SelectChat == \E i \in DOMAIN chatHistory : handleSelectChat(chatHistory[i])

\* handleSendMessage(content) with a content that is not blank, up to the
\* fetch
handleSendMessage ==
    /\ ~isLoading
    /\ LET fresh == IF currentChatId = NoChatId THEN 1 ELSE 0
       IN  /\ uuids + fresh + 2 <= MaxUuids
           /\ currentChatId' = IF currentChatId = NoChatId
                               THEN randomUUID(uuids + 1) ELSE currentChatId
           /\ messages' = messages
                  \o <<Message(randomUUID(uuids + fresh + 1), "user", Typed, <<>>),
                       Message(randomUUID(uuids + fresh + 2), "assistant", <<>>, <<>>)>>
           /\ assistantId' = randomUUID(uuids + fresh + 2)
           /\ uuids' = uuids + fresh + 2
    /\ isLoading' = TRUE
    /\ sendPc' = "fetch"
    /\ fullContent' = <<>>
    /\ clientSources' = <<>>
    /\ wire' = <<>>
    /\ served' = <<>>
    /\ UNCHANGED chatHistory
    /\ PageUnchanged

\* catch (error): the apology; finally: setIsLoading(false)
SendFails ==
    /\ messages' = WithContent(messages, assistantId, Apology)
    /\ isLoading' = FALSE
    /\ sendPc' = "failed"
    /\ UNCHANGED <<chatHistory, currentChatId, uuids, assistantId, fullContent,
                   clientSources, wire, served>>
    /\ PageUnchanged

\* how the fetch of /api/chat can end: rejected, answered 400 or 500, or
\* answered with an event stream
PageFetchOutcomes == {"rejects", "notOk", "stream"}

PageFetchSettles(o, events) ==
    /\ sendPc = "fetch"
    /\ IF o = "stream"
       THEN /\ sendPc' = "read"
            /\ wire' = EncodeAll(events)
            /\ served' = events
            /\ UNCHANGED <<messages, isLoading, chatHistory, currentChatId, uuids,
                           assistantId, fullContent, clientSources>>
            /\ PageUnchanged
       ELSE SendFails

PageFetch == \E o \in PageFetchOutcomes : \E events \in ServedStreams : PageFetchSettles(o, events)

\* reader.read() resolves with the next k tokens of the body: the chunk is
\* split into lines and each line is handled on its own
PageReadValue(k) ==
    /\ sendPc = "read"
    /\ k \in 1 .. Len(wire)
    /\ LET lines == Split(SubSeq(wire, 1, k), <<>>)
           acc == ReadLines(lines, [content |-> fullContent, sources |-> clientSources,
                                    updated |-> FALSE])
       IN  /\ fullContent' = acc.content
           /\ clientSources' = acc.sources
           /\ messages' = IF acc.updated
                          THEN WithContent(messages, assistantId, acc.content)
                          ELSE messages
    /\ wire' = SubSeq(wire, k + 1, Len(wire))
    /\ UNCHANGED <<isLoading, chatHistory, currentChatId, uuids, sendPc, assistantId,
                   served>>
    /\ PageUnchanged

PageReadChunk == \E k \in 1 .. Len(wire) : PageReadValue(k)

\* reader.read() resolves with done: the final update
PageReadDone ==
    /\ sendPc = "read"
    /\ wire = <<>>
    /\ messages' = WithContentAndSources(messages, assistantId, fullContent,
                                         clientSources)
    /\ isLoading' = FALSE
    /\ sendPc' = "done"
    /\ UNCHANGED <<chatHistory, currentChatId, uuids, assistantId, fullContent,
                   clientSources, wire, served>>
    /\ PageUnchanged

\* reader.read() rejects
PageReadFails ==
    /\ sendPc = "read"
    /\ SendFails

\* ------------------------------------------------------------ specification
\* the state after module load; the upstream behaves as `good` allows
Loaded(good) ==
    /\ \E env \in Environments : API_KEYS = FilterBoolean(env)
    /\ goodKeys \in good
    /\ currentKeyIndex = 0
    /\ keyStats = [i \in 0 .. Len(API_KEYS) - 1 |->
                      [requests |-> 0, failures |-> 0, lastUsed |-> 0]]
    /\ now = 1
    /\ pc = [c \in Calls |-> "idle"]
    /\ kind = [c \in Calls |-> "none"]
    /\ attempt = [c \in Calls |-> 0]
    /\ key = [c \in Calls |-> ""]
    /\ stats = [c \in Calls |-> 0]
    /\ result = [c \in Calls |-> "none"]
    /\ tried = [c \in Calls |-> <<>>]
    /\ goodAtCall = [c \in Calls |-> {}]
    /\ apiErrors = [c \in Calls |-> 0]
    /\ okSent = [k \in {KeyName(i) : i \in 1 .. NumKeySlots} \cup {Undefined} |->
                    [n |-> 0, t |-> 0, moved |-> FALSE]]
    /\ response = [c \in Calls |-> NoResponse]
    /\ promptOf = [c \in Calls |-> NoPrompt]
    /\ sources = [c \in Calls |-> <<>>]
    /\ upstream = [c \in Calls |-> <<>>]
    /\ buffer = [c \in Calls |-> <<>>]
    /\ out = [c \in Calls |-> <<>>]
    /\ closed = [c \in Calls |-> 0]
    /\ received = [c \in Calls |-> <<>>]
    /\ cancelled = [c \in Calls |-> FALSE]
    /\ readsAfterCancel = [c \in Calls |-> 0]
    /\ messages = <<>>
    /\ isLoading = FALSE
    /\ chatHistory = <<>>
    /\ currentChatId = NoChatId
    /\ uuids = 0
    /\ sendPc = "idle"
    /\ assistantId = NoChatId
    /\ fullContent = <<>>
    /\ clientSources = <<>>
    /\ wire = <<>>
    /\ served = <<>>

NoPromptCall ==
    /\ retrievedChunks = <<>>
    /\ maxContextTokens = DefaultMaxContextTokens
    /\ prompt = NoPrompt

\* no retrieval call yet
NoRetrieval ==
    /\ rpc = "idle"
    /\ caller = "none"
    /\ query = <<>>
    /\ topK = 0
    /\ keywords = <<>>
    /\ delivered = <<>>
    /\ queriesIssued = 0
    /\ path = <<>>
    /\ retrieved = <<>>

\* a deployment whose retrieval is not looked at
NoStore ==
    /\ supabaseConfigured = FALSE
    /\ store = <<>>
    /\ chunksFile = Unreadable
    /\ NoRetrieval

\* chunkSourceBlock not called
NotChunked == [called |-> FALSE, chunks |-> <<>>]

NoIngest ==
    /\ block = <<>>
    /\ chunked = NotChunked

\* concurrent calls, an upstream that may answer anything to any key
Init == Loaded({{}}) /\ NoPromptCall /\ NoStore /\ NoIngest

\* at most one key is known to be good, the others may answer anything
GoodKeyChoices == {{}} \cup {{k} : k \in Range(API_KEYS)}

\* calls made one at a time
InitSeq == Loaded(GoodKeyChoices) /\ NoPromptCall /\ NoStore /\ NoIngest

Next ==
    \/ \E c \in Calls : ChatCompletion(c)
    \/ \E c \in Calls : ChatCompletionStream(c)
    \/ \E c \in Calls : Fetch(c)
    \/ \E c \in Calls : TextSettles(c)
    \/ \E c \in Calls : Json(c)

Spec == Init /\ [][Next]_vars

NoneInFlight == \A c \in Calls : ~InFlight(c)

\* between calls the upstream changes the keys it accepts (a rate limit
\* sets in or is lifted)
UpstreamChanges ==
    /\ NoneInFlight
    /\ goodKeys' \in GoodKeyChoices \ {goodKeys}
    /\ UNCHANGED <<API_KEYS, currentKeyIndex, keyStats, now, callVars, histVars,
                   postVars, promptVars, retrievalVars, ingestVars, pageVars>>

NextSeq ==
    \/ UpstreamChanges
    \/ \E c \in Calls : NoneInFlight /\ ChatCompletion(c)
    \/ \E c \in Calls : NoneInFlight /\ ChatCompletionStream(c)
    \/ \E c \in Calls : Fetch(c)
    \/ \E c \in Calls : TextSettles(c)
    \/ \E c \in Calls : Json(c)

SpecSeq == InitSeq /\ [][NextSeq]_vars

\* one chat request from POST to the end of its event stream, on a
\* deployment with at most one key
InitRelay ==
    /\ Loaded({{}})
    /\ Len(API_KEYS) <= 1
    /\ NoPromptCall
    /\ NoStore
    /\ NoIngest

Requester == 1

NextRelay ==
    \/ Post(Requester)
    \/ Fetch(Requester)
    \/ TextSettles(Requester)
    \/ ReadChunk(Requester)
    \/ ReadDone(Requester)
    \/ ReadFails(Requester)

SpecRelay == InitRelay /\ [][NextRelay]_vars

\* the same request, whose consumer may cancel the response at any time
NextCancel ==
    \/ NextRelay
    \/ Cancel(Requester)

SpecCancel == InitRelay /\ [][NextCancel]_vars

\* the prompt builder applied to every list of chunks and every budget
InitPrompt ==
    /\ Loaded({{}})
    /\ Len(API_KEYS) = NumKeySlots
    /\ \E n \in 0 .. MaxChunks : retrievedChunks \in ChunkLists(n)
    /\ maxContextTokens \in 0 .. MaxBudget
    /\ prompt = NoPrompt
    /\ NoStore
    /\ NoIngest

NextPrompt == BuildPrompt

SpecPrompt == InitPrompt /\ [][NextPrompt]_vars

\* one call of retrieveRelevantChunks, by the chat route or directly, on
\* every store and local file
InitRetrieve ==
    /\ Loaded({{}})
    /\ API_KEYS = <<KeyName(1)>>
    /\ NoPromptCall
    /\ NoIngest
    /\ supabaseConfigured \in BOOLEAN
    /\ store \in IF supabaseConfigured THEN RowLists(MaxRows) ELSE {<<>>}
    /\ chunksFile \in {Unreadable} \cup {FileOf(rows) : rows \in RowLists(MaxFileChunks)}
    /\ NoRetrieval

NextRetrieve ==
    \/ RetrieveDirect
    \/ PostRetrieves(Requester)
    \/ Query
    \/ ReadFile
    \/ PostContinues(Requester)

SpecRetrieve == InitRetrieve /\ [][NextRetrieve]_vars

\* one call of retrieveRelevantChunks with a longer query, on a configured
\* store of at most one row
InitKeywords ==
    /\ Loaded({{}})
    /\ API_KEYS = <<KeyName(1)>>
    /\ NoPromptCall
    /\ NoIngest
    /\ supabaseConfigured = TRUE
    /\ store \in RowLists(1)
    /\ chunksFile \in {Unreadable} \cup {FileOf(rows) : rows \in RowLists(MaxFileChunks)}
    /\ NoRetrieval

NextKeywords ==
    \/ RetrieveLong
    \/ Query
    \/ ReadFile

SpecKeywords == InitKeywords /\ [][NextKeywords]_vars

\* one session of the chat page
InitPage ==
    /\ Loaded({{}})
    /\ API_KEYS = <<KeyName(1)>>
    /\ NoPromptCall
    /\ NoStore
    /\ NoIngest

NextPage ==
    \/ handleNewChat
    \/ SelectChat
    \/ handleSendMessage
    \/ PageFetch
    \/ PageReadChunk
    \/ PageReadDone
    \/ PageReadFails

SpecPage == InitPage /\ [][NextPage]_vars

\* the chunker applied to every source block
InitIngest ==
    /\ Loaded({{}})
    /\ Len(API_KEYS) = NumKeySlots
    /\ NoPromptCall
    /\ NoStore
    /\ block \in Texts
    /\ chunked = NotChunked

NextIngest == ChunkSourceBlock

SpecIngest == InitIngest /\ [][NextIngest]_vars

TypeOK ==
    /\ currentKeyIndex \in 0 .. NumKeySlots
    /\ \A c \in Calls : pc[c] \in {"idle", "fetch", "text", "json", "done", "read", "closed"}

\* ================================================================== claims
Built == prompt # NoPrompt

\* the least t with 4 * t >= len
CeilQuarter(len) == CHOOSE t \in 0 .. len : 4 * t >= len /\ 4 * (t - 1) < len

RECURSIVE TokenSum(_)
TokenSum(chunks) ==
    IF chunks = <<>> THEN 0
    ELSE CeilQuarter(chunks[1].text_length) + TokenSum(Tail(chunks))

InputPosition(ch) ==
    CHOOSE i \in 1 .. Len(retrievedChunks) : retrievedChunks[i].chunk_id = ch.chunk_id

NumKeys == Len(API_KEYS)

\* C1: a call that runs with no other call in flight on N >= 1 keys and whose
\* attempts all fail makes exactly N attempts, on the N distinct indices
\* start, start+1, ... modulo N, and raises the exhaustion error only then.
C1_ExhaustsAfterAllKeys ==
    \A c \in Calls :
        (NumKeys >= 1 /\ pc[c] \in {"fetch", "text", "json", "done"}) =>
            /\ Len(tried[c]) <= NumKeys
            /\ \A i \in 1 .. Len(tried[c]) :
                   tried[c][i] = (tried[c][1] + i - 1) % NumKeys
            /\ \A i, j \in 1 .. Len(tried[c]) : i # j => tried[c][i] # tried[c][j]
            /\ result[c] = ExhaustedError => Len(tried[c]) = NumKeys

\* a call that started on another index than 0 and exhausted three keys
C1_Witness ==
    \E c \in Calls :
        /\ NumKeys = NumKeySlots
        /\ result[c] = ExhaustedError
        /\ Len(tried[c]) = NumKeys
        /\ tried[c][1] # 0

\* C2: with N >= 1 keys configured, 0 <= currentKeyIndex < N in every state,
\* under any interleaving of the rotations of concurrent calls.
C2_IndexInPool ==
    NumKeys >= 1 => (0 <= currentKeyIndex /\ currentKeyIndex < NumKeys)

\* the index has wrapped to 0 while two calls are in flight
C2_Witness ==
    /\ NumKeys >= 2
    /\ currentKeyIndex = 0
    /\ keyStats[NumKeys - 1].failures >= 1
    /\ \E c, d \in Calls : c # d /\ InFlight(c) /\ InFlight(d)

RotatedOnce ==
    /\ currentKeyIndex' = (currentKeyIndex + 1) % NumKeys
    /\ keyStats'[currentKeyIndex].failures = keyStats[currentKeyIndex].failures + 1

NotRotated ==
    /\ currentKeyIndex' = currentKeyIndex
    /\ \A i \in DOMAIN keyStats : keyStats'[i].failures = keyStats[i].failures

IndexAdvanced == currentKeyIndex' = (currentKeyIndex + 1) % NumKeys

RotatingStatus(r) == ~r.net /\ r.status \in {429, 401, 403}

\* C3 as stated: every attempt that fails with 429/401/403 or at network
\* level advances the index from i to (i+1) mod N exactly once, the last
\* attempt included; a successful attempt leaves the index unchanged.
C3_RotatesOnEveryFailure ==
    [][\A c \in Calls : \A r \in Responses :
          FetchSettles(c, r) =>
              /\ (r.net \/ RotatingStatus(r)) => IndexAdvanced
              /\ r = OkResponse => currentKeyIndex' = currentKeyIndex]_vars

\* C3 as amended: an attempt answered 429/401/403 advances the index from i
\* to (i+1) mod N by one rotateKey() (one failure counted), the last attempt
\* included; an attempt that fails at network level does so unless it is
\* the call's last attempt (attempt = N-1), after which rotateKey() is not
\* called and the index is unchanged; a successful attempt leaves the index
\* unchanged.
C3_RotatesUnlessLastThrows ==
    [][\A c \in Calls : \A r \in Responses :
          FetchSettles(c, r) =>
              /\ RotatingStatus(r) => RotatedOnce
              /\ (r.net /\ attempt[c] < NumKeys - 1) => RotatedOnce
              /\ (r.net /\ attempt[c] >= NumKeys - 1) => NotRotated
              /\ r = OkResponse => NotRotated]_vars

\* a call whose last attempt was thrown out of: the index still names the
\* key of that attempt, whose failure was not counted
C3_Witness ==
    \E c \in Calls :
        /\ NumKeys >= 2
        /\ result[c] = ExhaustedError
        /\ Len(tried[c]) = NumKeys
        /\ currentKeyIndex = tried[c][NumKeys]
        /\ keyStats[currentKeyIndex].failures = 0
        /\ keyStats[tried[c][1]].failures = 1

\* C4: an OK response increments requests and sets lastUsed of exactly the
\* credential whose key was sent in that attempt, also when another call has
\* rotated currentKeyIndex between the send and the response.
C4_UsageOnKeySent ==
    \A i \in DOMAIN keyStats :
        /\ keyStats[i].requests = okSent[API_KEYS[i + 1]].n
        /\ keyStats[i].lastUsed = okSent[API_KEYS[i + 1]].t

\* an OK response arrived for a key the index had already moved away from
C4_Witness ==
    \E i \in DOMAIN keyStats :
        /\ okSent[API_KEYS[i + 1]].moved
        /\ keyStats[i].requests >= 1

\* C5: with no key configured, a completion call fails with the
\* configuration error, not the exhaustion error, and sends nothing.
C5_ConfigurationError ==
    \A c \in Calls :
        (NumKeys = 0 /\ pc[c] = "done") =>
            /\ result[c] = NoKeysError
            /\ tried[c] = <<>>

\* C6: a call running alone on a pool with at least one key that answers OK
\* returns the successful response, whatever index it starts on.
C6_FindsGoodKey ==
    \A c \in Calls :
        (goodAtCall[c] # {} /\ pc[c] = "done") => result[c] = "ok"

\* a call that started on another index than 0 and succeeded on its third key
C6_Witness ==
    \E c \in Calls :
        /\ result[c] = "ok"
        /\ Len(tried[c]) = NumKeySlots
        /\ tried[c][1] # 0
        /\ key[c] \in goodAtCall[c]

\* C7: when all attempts of chatCompletionStream fail it raises the
\* exhaustion error, and POST answers 500 with a JSON error body and emits
\* no event of an event stream.
C7_ExhaustionAnswers500 ==
    \A c \in Calls :
        (kind[c] = "post" /\ promptOf[c] # NoPrompt /\ pc[c] = "done") =>
            /\ result[c] = ExhaustedError
            /\ response[c] =
                   [status |-> 500, error |-> "Internal server error", stream |-> FALSE]
            /\ out[c] = <<>>
            /\ closed[c] = 0

\* a chat request whose only key was tried and failed
C7_Witness ==
    \E c \in Calls :
        /\ kind[c] = "post"
        /\ NumKeys = 1
        /\ tried[c] = <<0>>
        /\ result[c] = ExhaustedError
        /\ response[c].status = 500

EndedNormally(c) ==
    /\ pc[c] = "closed"
    /\ out[c][Len(out[c])] # ErrorEvent

\* C8: for every upstream stream that ends normally, with or without a
\* '[DONE]' line, the events sent hold exactly one sources event and exactly
\* one '[DONE]' sentinel, the sources event right before the sentinel, and
\* nothing after the sentinel.
C8_OneSourcesThenDone ==
    \A c \in Calls :
        EndedNormally(c) =>
            LET n == Len(out[c])
            IN  /\ n >= 2
                /\ out[c][n] = DoneEvent
                /\ out[c][n - 1] = SourcesEvent(sources[c])
                /\ \A i \in 1 .. n - 2 : out[c][i][1] = "content"

\* C9: for every list of retrieved chunks and every budget >= 0, the chunks
\* selected by buildPrompt have estimated tokens (ceil(len/4) each) that sum
\* to at most maxContextTokens.
C9_WithinBudget ==
    Built => TokenSum(prompt.contextUsed) <= maxContextTokens

\* a prompt that kept a chunk, dropped another and used the budget up
C9_Witness ==
    /\ Built
    /\ Len(prompt.contextUsed) >= 1
    /\ Len(prompt.contextUsed) < Len(retrievedChunks)
    /\ TokenSum(prompt.contextUsed) = maxContextTokens

\* C10: whatever the input order, contextUsed is ordered by similarity
\* descending, chunks of equal similarity in their input order, and the
\* context blocks 1..n of the system prompt are these chunks in this order.
C10_ScoreOrder ==
    Built =>
        LET used == prompt.contextUsed
            blocks == prompt.contextBlock
        IN  /\ \A i, j \in 1 .. Len(used) :
                   i < j =>
                       \/ used[i].similarity > used[j].similarity
                       \/ /\ used[i].similarity = used[j].similarity
                          /\ InputPosition(used[i]) < InputPosition(used[j])
            /\ Len(blocks) = Len(used)
            /\ \A i \in 1 .. Len(blocks) :
                   /\ blocks[i].number = i
                   /\ blocks[i].chunk_id = used[i].chunk_id
                   /\ blocks[i].url = used[i].source_url

\* a prompt whose chunks were stored in another order than their scores,
\* two of them with the same score
C10_Witness ==
    /\ Built
    /\ \E i, j \in 1 .. Len(prompt.contextUsed) :
           /\ i < j
           /\ InputPosition(prompt.contextUsed[i]) > InputPosition(prompt.contextUsed[j])
    /\ \E i, j \in 1 .. Len(prompt.contextUsed) :
           /\ i < j
           /\ prompt.contextUsed[i].similarity = prompt.contextUsed[j].similarity

\* ---- retrieval
\* every token is a stop-word or shorter than 3 characters
ZeroKeywords(q) ==
    \A i \in DOMAIN q :
        toLowerCase(q[i]) \in stopwords \/ toLowerCase(q[i]) \in {"hi"}

Returned == rpc = "done"

\* the chat route has gone on after the retrieval
PostWentOn == caller = "post" /\ pc[Requester] # "idle"

\* C11: for a message with zero keywords retrieveRelevantChunks returns the
\* empty list and POST builds the no-context prompt, whatever the store and
\* the local file hold.
C11_NoKeywordsNoContext ==
    (Returned /\ ZeroKeywords(query)) =>
        /\ retrieved = <<>>
        /\ PostWentOn => promptOf[Requester] = buildNoContextPrompt

\* C12: for a query with zero keywords retrieveChunks returns the empty
\* list (retrieveRelevantChunks goes on to the local search) and no query
\* is issued to the chunk store.
C12_NoKeywordsNoQuery ==
    (supabaseConfigured /\ rpc # "idle" /\ ZeroKeywords(query)) =>
        /\ queriesIssued = 0
        /\ delivered = <<>>
        /\ path = <<"supabase", "local">>

\* a two-token query without keywords, answered over a store that holds rows
C12_Witness ==
    /\ supabaseConfigured
    /\ Returned
    /\ Len(query) = 2
    /\ ZeroKeywords(query)
    /\ Len(store) > 0

\* C13: every chunk returned by either path has 0 <= similarity <= 1.
C13_SimilarityInUnitRange ==
    Returned =>
        \A i \in DOMAIN retrieved :
            0 <= retrieved[i].similarity /\ retrieved[i].similarity <= 100

\* the list the result was ranked from: the rows delivered, or the file
RankedFrom == IF path[Len(path)] = "data" THEN delivered ELSE chunksFile.chunks

PositionIn(rows, id) == CHOOSE i \in DOMAIN rows : rows[i].id = id

\* C14: the result has at most topK chunks, ordered by similarity
\* descending, chunks of equal similarity in the order they were delivered.
C14_TopKOrdered ==
    Returned =>
        /\ Len(retrieved) <= topK
        /\ \A i, j \in DOMAIN retrieved :
               i < j =>
                   \/ retrieved[i].similarity > retrieved[j].similarity
                   \/ /\ retrieved[i].similarity = retrieved[j].similarity
                      /\ PositionIn(RankedFrom, retrieved[i].chunk_id)
                             < PositionIn(RankedFrom, retrieved[j].chunk_id)

\* two chunks of equal score returned out of more delivered rows, the first
\* of which scored lower
C14_Witness ==
    /\ Returned
    /\ path = <<"supabase", "data">>
    /\ topK = 2
    /\ Len(delivered) > 2
    /\ Len(retrieved) = 2
    /\ retrieved[1].similarity = retrieved[2].similarity
    /\ delivered[1].id \notin {retrieved[1].chunk_id, retrieved[2].chunk_id}

\* C15: no stored chunk that matches a keyword and is left out of the
\* result of retrieveChunks scores strictly higher than a returned chunk.
C15_TrueTopK ==
    (Returned /\ path = <<"supabase", "data">>) =>
        \A i \in Matching(keywords) :
            (\A j \in DOMAIN retrieved : retrieved[j].chunk_id # store[i].id) =>
                \A j \in DOMAIN retrieved :
                    ScoredRow(store[i], keywords).similarity <= retrieved[j].similarity

QueryFailed == Len(path) >= 2 /\ path[2] \in {"error", "throws"}

\* C17: when the Supabase query fails, retrieveChunks returns [] and
\* retrieveRelevantChunks returns the result of the local search, [] if
\* the file cannot be read; the chat route goes on to build its prompt.
C17_FailureFallsBack ==
    QueryFailed =>
        /\ path = <<"supabase", path[2], "local">>
        /\ rpc \in {"readFile", "done"}
        /\ Returned =>
               /\ retrieved = retrieveChunksLocal(chunksFile, query, topK)
               /\ ~chunksFile.readable => retrieved = <<>>
        /\ PostWentOn =>
               /\ response[Requester] = NoResponse
               /\ result[Requester] = "none"
               /\ promptOf[Requester] =
                      IF Len(retrieved) > 0
                      THEN buildPrompt(retrieved, DefaultMaxContextTokens)
                      ELSE buildNoContextPrompt

\* a chat request whose query failed although rows matched, answered from
\* the local file
C17_Witness ==
    /\ QueryFailed
    /\ PostWentOn
    /\ Matching(keywords) # {}
    /\ Len(retrieved) > 0

\* ---- the relay and malformed fragments
\* the lines of the text read, the unterminated last one included
LinesRead(c) == Split(received[c], <<>>)

\* a 'data: ' line whose payload is neither '[DONE]' nor JSON
MalformedData(line) ==
    /\ Len(line) >= 1
    /\ line[1] = DATA
    /\ Tail(line) # <<DONE>>
    /\ ~(/\ Len(line) >= 3
         /\ line[2] = "{"
         /\ line[Len(line)] = "}"
         /\ \A i \in 3 .. Len(line) - 1 : line[i] \in ContentChars)

\* a 'data: ' line that carries a delta with content
WellFormedContent(line) ==
    /\ Len(line) >= 4
    /\ line[1] = DATA
    /\ line[2] = "{"
    /\ line[Len(line)] = "}"
    /\ \A i \in 3 .. Len(line) - 1 : line[i] \in ContentChars

\* the content events due for the lines from position i on
RECURSIVE ContentDue(_, _)
ContentDue(lines, i) ==
    IF i > Len(lines) THEN <<>>
    ELSE (IF WellFormedContent(lines[i])
          THEN <<ContentEvent(SubSeq(lines[i], 3, Len(lines[i]) - 1))>>
          ELSE <<>>) \o ContentDue(lines, i + 1)

IsContent(ev) == ev[1] = "content"

\* the events due were sent, in order, before any other of the events sent
Forwarded(due, sent) == Len(due) <= Len(sent) /\ SubSeq(sent, 1, Len(due)) = due

\* C16: when the upstream sent a 'data:' line whose payload is not JSON and
\* the upstream ends, the relay has sent no error event, the content events
\* of all well-formed content lines, before and after the malformed one,
\* were forwarded in order, and its last two events are the sources event
\* and the '[DONE]' sentinel.
C16_MalformedLineSkipped ==
    \A c \in Calls :
        (/\ pc[c] = "closed"
         /\ upstream[c] = <<>>
         /\ out[c][Len(out[c])] # ErrorEvent
         /\ \E i \in DOMAIN LinesRead(c) : MalformedData(LinesRead(c)[i])) =>
            /\ \A i \in DOMAIN out[c] : out[c][i] # ErrorEvent
            /\ Forwarded(ContentDue(LinesRead(c), 1), SelectSeq(out[c], IsContent))
            /\ Len(out[c]) >= 2
            /\ out[c][Len(out[c]) - 1] = SourcesEvent(sources[c])
            /\ out[c][Len(out[c])] = DoneEvent

\* a malformed line followed by a content line, whose event was forwarded
C16_Witness ==
    \E c \in Calls :
        /\ pc[c] = "closed"
        /\ out[c][Len(out[c])] = DoneEvent
        /\ \E i, j \in DOMAIN LinesRead(c) :
               /\ i < j
               /\ MalformedData(LinesRead(c)[i])
               /\ WellFormedContent(LinesRead(c)[j])
        /\ \E i \in DOMAIN out[c] : IsContent(out[c][i])

\* ---- sources
IsSources(ev) == ev[1] = "sources"

\* C19: every sources event lists the chunks of prompt.contextUsed, which
\* are the context blocks of the system prompt, one {url, title} entry per
\* chunk in the same order; a chunk dropped by the budget is not listed and
\* the no-context prompt gives the empty list.  A stream that ends normally
\* carries such an event.
C19_SourcesAreContextUsed ==
    \A c \in Calls :
        (kind[c] = "post" /\ pc[c] \in {"read", "closed"}) =>
            LET used == promptOf[c].contextUsed
                blocks == promptOf[c].contextBlock
            IN  /\ \A i \in DOMAIN out[c] :
                       IsSources(out[c][i]) =>
                           LET srcs == out[c][i][2]
                           IN  /\ Len(srcs) = Len(used)
                               /\ Len(srcs) = Len(blocks)
                               /\ \A k \in DOMAIN srcs :
                                      /\ srcs[k] = [url |-> used[k].source_url,
                                                    title |-> used[k].page_title]
                                      /\ blocks[k].url = srcs[k].url
                                      /\ blocks[k].source = srcs[k].title
                               /\ ~promptOf[c].context => srcs = <<>>
                /\ EndedNormally(c) => \E i \in DOMAIN out[c] : IsSources(out[c][i])

\* of two retrieved chunks the one stored first was dropped by the budget
\* and the sources event names the other alone
C19_Witness ==
    \E c \in Calls :
        /\ EndedNormally(c)
        /\ \E i \in DOMAIN out[c] :
               /\ IsSources(out[c][i])
               /\ Len(out[c][i][2]) = 1
               /\ out[c][i][2][1].url = <<"url", 2>>

\* ---- rotation under concurrency
Repeats(c) ==
    \E i, j \in DOMAIN tried[c] : i # j /\ tried[c][i] = tried[c][j]

\* C20: rotation is not serialized between calls.  A call on N >= 2 keys
\* can send the same credential in two of its attempts and raise the
\* exhaustion error without having tried some other credential (the
\* witness); this happens only when another call has made attempts, a call
\* whose rotations are all its own tries N distinct credentials.
C20_RepeatsOnlyWhenInterleaved ==
    \A c \in Calls :
        (NumKeys >= 2 /\ Repeats(c)) => \E d \in Calls \ {c} : tried[d] # <<>>

\* a streaming call that raised the exhaustion error after sending one
\* credential twice and another never, a second call being in flight
C20_Witness ==
    \E c \in Calls :
        /\ NumKeys >= 2
        /\ kind[c] = "stream"
        /\ result[c] = ExhaustedError
        /\ Repeats(c)
        /\ \E i \in 0 .. NumKeys - 1 : \A a \in DOMAIN tried[c] : tried[c][a] # i
        /\ \E d \in Calls \ {c} : InFlight(d)

\* ---- the chunker
\* C18: for every source block, every sentence of the block's text is
\* contained in at least one chunk that chunkSourceBlock emits.
C18_ChunksCoverBlock ==
    chunked.called =>
        \A i \in DOMAIN splitIntoSentences(block) :
            \E k \in DOMAIN chunked.chunks :
                \E j \in DOMAIN chunked.chunks[k].sentences :
                    chunked.chunks[k].sentences[j] = splitIntoSentences(block)[i].id

\* ---- the greedy selection
\* a goes before b in the list sorted by score
RanksBefore(a, b) ==
    \/ a.similarity > b.similarity
    \/ /\ a.similarity = b.similarity
       /\ InputPosition(a) < InputPosition(b)

IsUsed(ch) == \E k \in DOMAIN prompt.contextUsed : prompt.contextUsed[k].chunk_id = ch.chunk_id

\* C21: contextUsed is a prefix of the score-sorted chunk list: once a
\* chunk was rejected for not fitting, no chunk ranked below it is included.
C21_PrefixOfSorted ==
    Built =>
        \A i \in DOMAIN retrievedChunks :
            ~IsUsed(retrievedChunks[i]) =>
                \A k \in DOMAIN prompt.contextUsed :
                    RanksBefore(prompt.contextUsed[k], retrievedChunks[i])

\* ---- the sizes of the chunks emitted
\* C23: every chunk emitted by chunkSourceBlock has word_count <= 400, and
\* word_count >= 100 unless it is the last chunk of its block, which has
\* word_count >= 50.
C23_ChunkSizes ==
    chunked.called =>
        \A k \in DOMAIN chunked.chunks :
            /\ chunked.chunks[k].word_count <= 400
            /\ k < Len(chunked.chunks) => chunked.chunks[k].word_count >= 100
            /\ chunked.chunks[k].word_count >= 50

\* ---- an API error inside the attempt loop
\* C25: a non-OK response whose status is not 429/401/403 is never surfaced
\* to the caller as 'OpenRouter API error': it is caught inside the attempt
\* loop, the index is rotated when attempts remain and the next attempt is
\* made, and the caller sees a later success or the exhaustion error.
C25_ApiErrorCaught ==
    /\ [](\A c \in Calls :
            /\ result[c] # ApiError
            /\ (pc[c] = "done" /\ apiErrors[c] > 0) => result[c] \in {"ok", ExhaustedError})
    /\ [][\A c \in Calls :
            TextSettles(c) =>
                IF attempt[c] < NumKeys - 1
                THEN /\ RotatedOnce
                     /\ pc'[c] = "fetch"
                     /\ attempt'[c] = attempt[c] + 1
                     /\ Len(tried'[c]) = Len(tried[c]) + 1
                ELSE /\ NotRotated
                     /\ pc'[c] = "done"
                     /\ result'[c] = ExhaustedError]_vars

\* a call that was answered 500 and succeeded on a later key, and a call
\* whose last attempt was answered 500
C25_Witness ==
    /\ \E c \in Calls : apiErrors[c] > 0 /\ result[c] = "ok"
    /\ \E c \in Calls : apiErrors[c] > 0 /\ result[c] = ExhaustedError

\* ---- the failure counters
Occurrences(seq, i) == Cardinality({k \in DOMAIN seq : seq[k] = i})

\* the attempts of call c sent with the key of index i that failed: all of
\* them, but the last one of a call that returned
FailedAttemptsOf(c, i) ==
    Occurrences(tried[c], i)
    - (IF result[c] = "ok" /\ tried[c][Len(tried[c])] = i THEN 1 ELSE 0)

RECURSIVE FailedAttemptsUpTo(_, _)
FailedAttemptsUpTo(c, i) ==
    IF c = 0 THEN 0 ELSE FailedAttemptsOf(c, i) + FailedAttemptsUpTo(c - 1, i)

\* C26: when no completion call is in flight, keyStats[k].failures equals the
\* number of failed attempts that were sent with credential k.
C26_FailuresCountFailedAttempts ==
    NoneInFlight =>
        \A i \in DOMAIN keyStats : keyStats[i].failures = FailedAttemptsUpTo(MaxCalls, i)

\* ---- the relay and the reads
\* C22: however the upstream bytes are split into reads, the content events
\* sent for an upstream that ended are, in order and without loss or
\* duplication, the non-empty delta contents of the well-formed 'data:'
\* lines of the upstream.
C22_ContentOfDataLines ==
    \A c \in Calls :
        (EndedNormally(c) /\ upstream[c] = <<>>) =>
            SelectSeq(out[c], IsContent) = ContentDue(LinesRead(c), 1)

\* ---- cancellation
\* C24: once the consumer has cancelled the response, the relay performs no
\* further read on the upstream stream and emits no further event.
C24_CancelStopsRelay ==
    /\ [](\A c \in Calls : readsAfterCancel[c] = 0)
    /\ [][\A c \in Calls : cancelled[c] => out'[c] = out[c]]_vars

\* ---- a read that fails
ErrorEvents(c) == SelectSeq(out[c], LAMBDA ev : ev = ErrorEvent)

\* the lines of the text read that were terminated by a newline
TerminatedLines(c) == SubSeq(LinesRead(c), 1, Len(LinesRead(c)) - 1)

\* C30: a read that fails makes the relay send one error event as its last
\* event and close the stream; no sources event and no sentinel follows, the
\* events forwarded before remain; on every path the stream is closed
\* exactly once.
C30_ErrorEventLast ==
    /\ [](\A c \in Calls :
            /\ pc[c] = "read" => closed[c] = 0 /\ ErrorEvents(c) = <<>>
            /\ pc[c] = "closed" =>
                   /\ closed[c] = 1
                   /\ ErrorEvents(c) # <<>> =>
                          /\ ErrorEvents(c) = <<ErrorEvent>>
                          /\ out[c][Len(out[c])] = ErrorEvent
                          /\ SubSeq(out[c], 1, Len(out[c]) - 1)
                                 = ProcessLines(TerminatedLines(c), sources[c]))
    /\ [][\A c \in Calls :
            /\ ReadFails(c) =>
                   /\ out'[c] = Append(out[c], ErrorEvent)
                   /\ closed'[c] = closed[c] + 1
                   /\ pc'[c] = "closed"
            /\ pc[c] = "closed" => out'[c] = out[c] /\ closed'[c] = closed[c]]_vars

\* the read failed after a content event had been forwarded
C30_Witness ==
    \E c \in Calls :
        /\ pc[c] = "closed"
        /\ closed[c] = 1
        /\ Len(out[c]) >= 2
        /\ IsContent(out[c][1])
        /\ out[c][Len(out[c])] = ErrorEvent

\* ---- the cap on the expanded keywords
\* C29: every keyword extracted from the query (the up to 5 tokens kept
\* after the stop-word and length filter) is in the final expanded keyword
\* list: the cap of 10 terms never removes a term the user typed.
C29_TypedKeywordsKept ==
    (rpc # "idle" /\ Len(keywords) > 0) =>
        \A i \in DOMAIN ExtractKeywords(query) :
            ExtractKeywords(query)[i] \in Range(keywords)

\* ---- the chat page
RECURSIVE ContentsSent(_)
ContentsSent(evs) ==
    IF evs = <<>> THEN <<>>
    ELSE (IF IsContent(evs[1]) THEN evs[1][2] ELSE <<>>) \o ContentsSent(Tail(evs))

\* the list of the last sources event, [] when none was sent
LastSourcesSent(evs) ==
    LET srcs == SelectSeq(evs, IsSources)
    IN  IF srcs = <<>> THEN <<>> ELSE srcs[Len(srcs)][2]

\* C27: however the server's event stream is split into reads, when the
\* stream has ended the content of the assistant message is the
\* concatenation, in order, of the content fragments the server sent, and
\* its sources are those of the last sources event sent.
C27_ClientReassembles ==
    sendPc = "done" =>
        /\ fullContent = ContentsSent(served)
        /\ clientSources = LastSourcesSent(served)

\* C28: after any sequence of send-message, new-chat and select-chat
\* operations, chatHistory holds no two entries with the same chat id.
C28_HistoryIdsDistinct ==
    \A i, j \in DOMAIN chatHistory :
        i # j => chatHistory[i].id # chatHistory[j].id

====
